---- MODULE Spec2Model ----
(***************************************************************************)
(* Sparse matrices of DSA-HW01.                                            *)
(*                                                                         *)
(* Two implementations live in the repository:                             *)
(*   code/main.py           data = {row: {col: value}}, nnz counter        *)
(*   code/sparse_matrix.py  data = {(row, col): value}                     *)
(*                                                                         *)
(* main.py keeps one inner dict object per populated row.  Inner dicts are *)
(* mutable Python objects, so they are modelled as cells of a heap and a   *)
(* matrix holds references (ids) to them; whether two matrices share an    *)
(* inner dict is then a fact of the state, not of the notation.            *)
(***************************************************************************)
EXTENDS Integers, FiniteSets, Sequences, TLC

\* ---------------------------------------------------------------- bounds
MaxDim == 2
MaxVal == 1
MaxNnz == 2
MaxCells == 2
MaxEntries == 1

Dims == 0..MaxDim
Idx  == -1..MaxDim
Vals == -MaxVal..MaxVal
Names == {"A", "B"}

VARIABLES
    mats,     \* main.py: name -> SparseMatrix object, names "A", "B"
    result,   \* main.py: the matrix returned by the last operation, or None
    heap,     \* main.py: id -> inner dict (col -> value)
    last,     \* main.py: outcome of the last call
    pmats,    \* sparse_matrix.py: name -> SparseMatrix object
    presult,  \* sparse_matrix.py: the matrix returned by the last operation
    plast     \* sparse_matrix.py: outcome of the last call

vars == <<mats, result, heap, last, pmats, presult, plast>>
mainVars == <<mats, result, heap, last>>
pairVars == <<pmats, presult, plast>>

None == [at |-> 0, rows |-> -1, cols |-> -1, data |-> <<>>, nnz |-> -1]
EmptyDict == <<>>

\* ------------------------------------------------------------ dict helpers
DictGet(d, k, default) == IF k \in DOMAIN d THEN d[k] ELSE default

DictPut(d, k, v) == [x \in DOMAIN d \cup {k} |-> IF x = k THEN v ELSE d[x]]

DictDel(d, k) == [x \in DOMAIN d \ {k} |-> d[x]]

\* Object identities.  A SparseMatrix object sits at an address `at`; the
\* inner dict it allocates for a row gets the id at + row + 1, which is free
\* unless some other object still holds the dict this matrix had there before,
\* and then any id in use nowhere will do.
Slots == MaxDim + 1
AtA == 0
AtB == Slots
AtResult == 2 * Slots
AtNew == 3 * Slots

FreshId(h, m, row) ==
    IF m.at + row + 1 \notin DOMAIN h THEN m.at + row + 1
    ELSE CHOOSE i \in (4 * Slots + 1)..(4 * Slots + 1 + Cardinality(DOMAIN h)) :
             i \notin DOMAIN h

\* ------------------------------------------------------------ main.py
SparseMatrix(at, rows, cols) ==
    [at |-> at, rows |-> rows, cols |-> cols, data |-> EmptyDict, nnz |-> 0]

\* the inner dict of a row, as get_element reads it: data.get(row, {})
RowDict(h, m, row) == IF row \in DOMAIN m.data THEN h[m.data[row]] ELSE EmptyDict

get_element(h, m, row, col) ==
    [status |-> "ok", ret |-> DictGet(RowDict(h, m, row), col, 0)]

\* set_element without the branch that removes an entry
set_element_no_delete(h, m, row, col, value) ==
    IF ~(0 <= row /\ row < m.rows /\ 0 <= col /\ col < m.cols)
    THEN [status |-> "MatrixIndexError", heap |-> h, m |-> m]
    ELSE IF value # 0
    THEN IF row \in DOMAIN m.data
         THEN [status |-> "ok",
               heap |-> [h EXCEPT ![m.data[row]] = DictPut(@, col, value)],
               m |-> [m EXCEPT !.nnz = @ + 1]]
         ELSE LET id == FreshId(h, m, row)
              IN [status |-> "ok",
                  heap |-> DictPut(h, id, DictPut(EmptyDict, col, value)),
                  m |-> [m EXCEPT !.data = DictPut(@, row, id), !.nnz = @ + 1]]
    ELSE [status |-> "ok", heap |-> h, m |-> m]

set_element(h, m, row, col, value) ==
    IF ~(0 <= row /\ row < m.rows /\ 0 <= col /\ col < m.cols)
    THEN [status |-> "MatrixIndexError", heap |-> h, m |-> m]
    ELSE IF value # 0
    THEN IF row \in DOMAIN m.data
         THEN [status |-> "ok",
               heap |-> [h EXCEPT ![m.data[row]] = DictPut(@, col, value)],
               m |-> [m EXCEPT !.nnz = @ + 1]]
         ELSE LET id == FreshId(h, m, row)
              IN [status |-> "ok",
                  heap |-> DictPut(h, id, DictPut(EmptyDict, col, value)),
                  m |-> [m EXCEPT !.data = DictPut(@, row, id), !.nnz = @ + 1]]
    ELSE IF row \in DOMAIN m.data /\ col \in DOMAIN h[m.data[row]]
    THEN LET id == m.data[row]
             d == DictDel(h[id], col)
         IN IF DOMAIN d = {}
            THEN [status |-> "ok",
                  heap |-> [h EXCEPT ![id] = d],
                  m |-> [m EXCEPT !.data = DictDel(@, row), !.nnz = @ - 1]]
            ELSE [status |-> "ok",
                  heap |-> [h EXCEPT ![id] = d],
                  m |-> [m EXCEPT !.nnz = @ - 1]]
    ELSE [status |-> "ok", heap |-> h, m |-> m]

\* the (row, col, value) triples of the nested loops over data.items()
Items(h, m) ==
    UNION {{<<row, col, h[m.data[row]][col]>> : col \in DOMAIN h[m.data[row]]} :
              row \in DOMAIN m.data}

\* `for ...: result.set_element(row, col, value)`; an exception ends the loop
RECURSIVE SetAll(_, _)
SetAll(st, S) ==
    IF S = {} \/ st.status # "ok" THEN st
    ELSE LET t == CHOOSE t \in S : TRUE
         IN SetAll(set_element(st.heap, st.m, t[1], t[2], t[3]), S \ {t})

\* subtract with its operands the wrong way round
Operation_swapped(operation, x, y) == IF operation = "add" THEN x + y ELSE y - x

\* the lambdas handed to _elementwise_operation by add and subtract
Operation(operation, x, y) == IF operation = "add" THEN x + y ELSE x - y

\* `result.set_element(row, col, operation(result.get_element(row, col), value))`
RECURSIVE Combine(_, _, _)
Combine(st, S, operation) ==
    IF S = {} \/ st.status # "ok" THEN st
    ELSE LET t == CHOOSE t \in S : TRUE
             x == get_element(st.heap, st.m, t[1], t[2]).ret
         IN Combine(set_element(st.heap, st.m, t[1], t[2], Operation(operation, x, t[3])),
                    S \ {t}, operation)

\* _elementwise_operation taking over the rows of self instead of copying them
elementwise_operation_shallow(h, self, other, operation) ==
    IF <<self.rows, self.cols>> # <<other.rows, other.cols>>
    THEN [status |-> "MatrixDimensionError", heap |-> h, m |-> None]
    ELSE Combine([status |-> "ok", heap |-> h,
                  m |-> [SparseMatrix(AtNew, self.rows, self.cols)
                            EXCEPT !.data = self.data, !.nnz = self.nnz]],
                 Items(h, other), operation)

elementwise_operation(h, self, other, operation) ==
    IF <<self.rows, self.cols>> # <<other.rows, other.cols>>
    THEN [status |-> "MatrixDimensionError", heap |-> h, m |-> None]
    ELSE Combine(SetAll([status |-> "ok", heap |-> h,
                         m |-> SparseMatrix(AtNew, self.rows, self.cols)],
                        Items(h, self)),
                 Items(h, other), operation)

add(h, self, other) == elementwise_operation(h, self, other, "add")

subtract(h, self, other) == elementwise_operation(h, self, other, "subtract")

\* the accumulation writing v1 * v2 over what row_data holds
RECURSIVE Accumulate_overwrite(_, _, _, _)
Accumulate_overwrite(row_data, P, cols, other_rows) ==
    IF P = {} THEN row_data
    ELSE LET p == CHOOSE p \in P : TRUE
         IN Accumulate_overwrite(DictPut(row_data, p[2], cols[p[1]] * other_rows[p[1]][p[2]]),
                                 P \ {p}, cols, other_rows)

\* row_data[col] = row_data.get(col, 0) + v1 * v2 over the (k, col) pairs of a row
RECURSIVE Accumulate(_, _, _, _)
Accumulate(row_data, P, cols, other_rows) ==
    IF P = {} THEN row_data
    ELSE LET p == CHOOSE p \in P : TRUE
             k == p[1]
             col == p[2]
         IN Accumulate(DictPut(row_data, col,
                               DictGet(row_data, col, 0) + cols[k] * other_rows[k][col]),
                       P \ {p}, cols, other_rows)

RowData(h, self, other, row) ==
    LET cols == h[self.data[row]]
        other_rows == [k \in DOMAIN other.data |-> h[other.data[k]]]
        P == UNION {{<<k, col>> : col \in DOMAIN other_rows[k]} :
                       k \in DOMAIN cols \cap DOMAIN other_rows}
    IN Accumulate(EmptyDict, P, cols, other_rows)

RECURSIVE MultiplyRows(_, _, _, _, _)
MultiplyRows(st, rows, h, self, other) ==
    IF rows = {} \/ st.status # "ok" THEN st
    ELSE LET row == CHOOSE row \in rows : TRUE
             row_data == RowData(h, self, other, row)
         IN MultiplyRows(SetAll(st, {<<row, col, row_data[col]>> : col \in DOMAIN row_data}),
                         rows \ {row}, h, self, other)

\* multiply comparing the operands' rows
multiply_rows_check(h, self, other) ==
    IF self.rows # other.rows
    THEN [status |-> "MatrixDimensionError", heap |-> h, m |-> None]
    ELSE MultiplyRows([status |-> "ok", heap |-> h,
                       m |-> SparseMatrix(AtNew, self.rows, other.cols)],
                      DOMAIN self.data, h, self, other)

multiply(h, self, other) ==
    IF self.cols # other.rows
    THEN [status |-> "MatrixDimensionError", heap |-> h, m |-> None]
    ELSE MultiplyRows([status |-> "ok", heap |-> h,
                       m |-> SparseMatrix(AtNew, self.rows, other.cols)],
                      DOMAIN self.data, h, self, other)

\* transpose building its result with the dimensions of self
transpose_no_swap(h, self) ==
    SetAll([status |-> "ok", heap |-> h, m |-> SparseMatrix(AtNew, self.rows, self.cols)],
           {<<t[2], t[1], t[3]>> : t \in Items(h, self)})

transpose(h, self) ==
    SetAll([status |-> "ok", heap |-> h, m |-> SparseMatrix(AtNew, self.cols, self.rows)],
           {<<t[2], t[1], t[3]>> : t \in Items(h, self)})

\* ------------------------------------------------------ sparse_matrix.py
\* __init__(rows, cols): both given, no file
sparse_matrix_SparseMatrix(rows, cols) == [rows |-> rows, cols |-> cols, data |-> EmptyDict]

PNone == [rows |-> -1, cols |-> -1, data |-> EmptyDict]

sparse_matrix_set_element(m, row, col, value) ==
    [m EXCEPT !.data = DictPut(@, <<row, col>>, value)]

sparse_matrix_get_element(m, row, col) ==
    IF 0 <= row /\ row < m.rows /\ 0 <= col /\ col < m.cols
    THEN [status |-> "ok", ret |-> DictGet(m.data, <<row, col>>, 0)]
    ELSE [status |-> "IndexError", ret |-> 0]

\* `for (row, col), value in self.data.items():
\*      result.set_element(row, col, value <sign> other.get_element(row, col))`
RECURSIVE sparse_matrix_loop(_, _, _, _, _)
sparse_matrix_loop(st, keys, self, other, sign) ==
    IF keys = {} \/ st.status # "ok" THEN st
    ELSE LET key == CHOOSE key \in keys : TRUE
             g == sparse_matrix_get_element(other, key[1], key[2])
         IN IF g.status # "ok"
            THEN [status |-> g.status, m |-> PNone]
            ELSE sparse_matrix_loop(
                     [status |-> "ok",
                      m |-> sparse_matrix_set_element(st.m, key[1], key[2],
                                                      self.data[key] + sign * g.ret)],
                     keys \ {key}, self, other, sign)

sparse_matrix_add(self, other) ==
    IF self.rows # other.rows \/ self.cols # other.cols
    THEN [status |-> "ValueError", m |-> PNone]
    ELSE sparse_matrix_loop([status |-> "ok",
                             m |-> sparse_matrix_SparseMatrix(self.rows, self.cols)],
                            DOMAIN self.data, self, other, 1)

sparse_matrix_subtract(self, other) ==
    IF self.rows # other.rows \/ self.cols # other.cols
    THEN [status |-> "ValueError", m |-> PNone]
    ELSE sparse_matrix_loop([status |-> "ok",
                             m |-> sparse_matrix_SparseMatrix(self.rows, self.cols)],
                            DOMAIN self.data, self, other, -1)

\* sum(self.get_element(i, k) * other.get_element(k, j) for k in range(self.cols))
RECURSIVE sum_val(_, _, _, _, _)
sum_val(self, other, i, j, n) ==
    IF n <= 0 THEN 0
    ELSE sum_val(self, other, i, j, n - 1)
         + sparse_matrix_get_element(self, i, n - 1).ret
           * sparse_matrix_get_element(other, n - 1, j).ret

RECURSIVE sparse_matrix_cells(_, _, _, _)
sparse_matrix_cells(m, cells, self, other) ==
    IF cells = {} THEN m
    ELSE LET c == CHOOSE c \in cells : TRUE
             v == sum_val(self, other, c[1], c[2], self.cols)
         IN sparse_matrix_cells(IF v # 0 THEN sparse_matrix_set_element(m, c[1], c[2], v)
                                         ELSE m,
                                cells \ {c}, self, other)

sparse_matrix_multiply(self, other) ==
    IF self.cols # other.rows
    THEN [status |-> "ValueError", m |-> PNone]
    ELSE [status |-> "ok",
          m |-> sparse_matrix_cells(sparse_matrix_SparseMatrix(self.rows, other.cols),
                                    (0..(self.rows - 1)) \X (0..(other.cols - 1)),
                                    self, other)]

\* ------------------------------------------------------------ main.py: state
\* Inner dicts no matrix refers to any more are reclaimed, and the matrix
\* bound to `result` takes the address of the one it replaces: an address is an
\* identity only, so states that differ in the addresses alone are the same.
Refs(m) == {m.data[row] : row \in DOMAIN m.data}

Owned(id) == id > AtResult

Settle(r) ==
    IF r = None THEN None
    ELSE [r EXCEPT !.at = AtResult,
                   !.data = [row \in DOMAIN r.data |->
                                IF Owned(r.data[row]) THEN AtResult + row + 1
                                ELSE r.data[row]]]

Collect(h, ms, r) ==
    LET keep == UNION {Refs(ms[n]) : n \in Names}
                    \cup (IF r = None THEN {} ELSE {id \in Refs(r) : ~Owned(id)})
        own == IF r = None THEN {} ELSE {row \in DOMAIN r.data : Owned(r.data[row])}
    IN [id \in keep \cup {AtResult + row + 1 : row \in own} |->
           IF id \in keep THEN h[id] ELSE h[r.data[id - AtResult - 1]]]

Obj(name) == IF name = "R" THEN result ELSE mats[name]

NoCall == [op |-> "-", status |-> "-", ret |-> 0]

\* the shapes of the two operands: any two shapes of at most MaxCells cells,
\* or two squares of the same size
ShapePairs ==
    {p \in (Dims \X Dims) \X (Dims \X Dims) :
        \/ p[1][1] * p[1][2] <= MaxCells /\ p[2][1] * p[2][2] <= MaxCells
        \/ p[1][1] = p[1][2] /\ p[2] = p[1]}

\* main.py: two operands constructed with dimensions and no source file
Init ==
    /\ \E p \in ShapePairs :
          mats = [n \in Names |-> IF n = "A" THEN SparseMatrix(AtA, p[1][1], p[1][2])
                                             ELSE SparseMatrix(AtB, p[2][1], p[2][2])]
    /\ result = None
    /\ heap = EmptyDict
    /\ last = NoCall
    /\ pmats = [n \in Names |-> sparse_matrix_SparseMatrix(0, 0)]
    /\ presult = PNone
    /\ plast = NoCall

\* the state an operation leaves behind
Leave(h, ms, r) ==
    /\ heap' = Collect(h, ms, r)
    /\ mats' = ms
    /\ result' = Settle(r)

\* The driver builds its operands first and operates on them afterwards: the
\* operands take set_element calls until the first result is returned.
SetElement(name, row, col, value) ==
    /\ result = None
    /\ value # 0 => mats[name].nnz < MaxNnz
    /\ LET st == set_element(heap, mats[name], row, col, value)
       IN /\ Leave(st.heap, [mats EXCEPT ![name] = st.m], result)
          /\ last' = [op |-> "set_element", status |-> st.status, ret |-> 0]
    /\ UNCHANGED pairVars

GetElement(name, row, col) ==
    /\ name = "R" => result # None
    /\ LET g == get_element(heap, Obj(name), row, col)
       IN last' = [op |-> "get_element", status |-> g.status, ret |-> g.ret]
    /\ UNCHANGED <<mats, result, heap>>
    /\ UNCHANGED pairVars

\* result = self.<op>(other): the returned matrix is bound only when no
\* exception is raised
Return(op, st) ==
    /\ Leave(st.heap, mats, IF st.status = "ok" THEN st.m ELSE result)
    /\ last' = [op |-> op, status |-> st.status, ret |-> 0]
    /\ UNCHANGED pairVars

Add(self, other) == Return("add", add(heap, mats[self], mats[other]))

Subtract(self, other) == Return("subtract", subtract(heap, mats[self], mats[other]))

Multiply(self, other) == Return("multiply", multiply(heap, mats[self], mats[other]))

Transpose(self) == Return("transpose", transpose(heap, mats[self]))

Next ==
    \/ \E name \in Names, row \in Idx, col \in Idx, value \in Vals :
          SetElement(name, row, col, value)
    \/ \E name \in Names \cup {"R"}, row \in Idx, col \in Idx : GetElement(name, row, col)
    \/ \E self \in Names, other \in Names : Add(self, other)
    \/ \E self \in Names, other \in Names : Subtract(self, other)
    \/ \E self \in Names, other \in Names : Multiply(self, other)
    \/ \E self \in Names : Transpose(self)

Spec == Init /\ [][Next]_vars

\* ------------------------------------------------ sparse_matrix.py: state
InitPairs ==
    /\ \E p \in ShapePairs :
          pmats = [n \in Names |->
                      IF n = "A" THEN sparse_matrix_SparseMatrix(p[1][1], p[1][2])
                                 ELSE sparse_matrix_SparseMatrix(p[2][1], p[2][2])]
    /\ presult = PNone
    /\ plast = NoCall
    /\ mats = [n \in Names |-> IF n = "A" THEN SparseMatrix(AtA, 0, 0)
                                          ELSE SparseMatrix(AtB, 0, 0)]
    /\ result = None
    /\ heap = EmptyDict
    /\ last = NoCall

PObj(name) == IF name = "R" THEN presult ELSE pmats[name]

Entries == Cardinality(DOMAIN pmats["A"].data) + Cardinality(DOMAIN pmats["B"].data)

PSetElement(name, row, col, value) ==
    /\ presult = PNone
    /\ <<row, col>> \notin DOMAIN pmats[name].data => Entries < MaxEntries
    /\ pmats' = [pmats EXCEPT ![name] = sparse_matrix_set_element(@, row, col, value)]
    /\ plast' = [op |-> "set_element", status |-> "ok", ret |-> 0]
    /\ UNCHANGED presult
    /\ UNCHANGED mainVars

PGetElement(name, row, col) ==
    /\ name = "R" => presult # PNone
    /\ LET g == sparse_matrix_get_element(PObj(name), row, col)
       IN plast' = [op |-> "get_element", status |-> g.status, ret |-> g.ret]
    /\ UNCHANGED <<pmats, presult>>
    /\ UNCHANGED mainVars

PReturn(op, st) ==
    /\ presult' = IF st.status = "ok" THEN st.m ELSE presult
    /\ plast' = [op |-> op, status |-> st.status, ret |-> 0]
    /\ UNCHANGED pmats
    /\ UNCHANGED mainVars

PAdd(self, other) == PReturn("add", sparse_matrix_add(pmats[self], pmats[other]))

PSubtract(self, other) ==
    PReturn("subtract", sparse_matrix_subtract(pmats[self], pmats[other]))

PMultiply(self, other) ==
    PReturn("multiply", sparse_matrix_multiply(pmats[self], pmats[other]))

NextPairs ==
    \/ \E name \in Names, row \in Idx, col \in Idx, value \in Vals :
          PSetElement(name, row, col, value)
    \/ \E name \in Names \cup {"R"}, row \in Idx, col \in Idx : PGetElement(name, row, col)
    \/ \E self \in Names, other \in Names : PAdd(self, other)
    \/ \E self \in Names, other \in Names : PSubtract(self, other)
    \/ \E self \in Names, other \in Names : PMultiply(self, other)

SpecPairs == InitPairs /\ [][NextPairs]_vars

\* ------------------------------------------------------------ properties
Cells(m) == (0..(m.rows - 1)) \X (0..(m.cols - 1))

InBounds(m, row, col) == 0 <= row /\ row < m.rows /\ 0 <= col /\ col < m.cols

Val(h, m, row, col) == get_element(h, m, row, col).ret

SameShape(m1, m2) == <<m1.rows, m1.cols>> = <<m2.rows, m2.cols>>

Matrices == {mats[n] : n \in Names} \cup (IF result = None THEN {} ELSE {result})

PMatrices == {pmats[n] : n \in Names} \cup (IF presult = PNone THEN {} ELSE {presult})

\* the matrix bound to `result` is the one the operation st returned
ResultIs(st) ==
    /\ st.status = "ok"
    /\ result # None
    /\ <<result.rows, result.cols, result.nnz>> = <<st.m.rows, st.m.cols, st.m.nnz>>
    /\ Items(heap, result) = Items(st.heap, st.m)

\* sum over k < n of self[row, k] * other[k, col]
RECURSIVE Dot(_, _, _, _, _, _)
Dot(h, self, other, row, col, n) ==
    IF n <= 0 THEN 0
    ELSE Dot(h, self, other, row, col, n - 1)
         + Val(h, self, row, n - 1) * Val(h, other, n - 1, col)

IsIdentity(h, m) ==
    /\ m.rows = m.cols
    /\ Items(h, m) = {<<i, i, 1>> : i \in 0..(m.rows - 1)}

\* C1, main.py: no stored entry is zero, and set_element(row, col, 0) leaves no
\* entry at (row, col)
MainZeroSuppression ==
    \A m \in Matrices :
        /\ \A t \in Items(heap, m) : t[3] # 0
        /\ \A e \in Items(heap, m) :
              LET st == set_element(heap, m, e[1], e[2], 0)
              IN \A t \in Items(st.heap, st.m) : <<t[1], t[2]>> # <<e[1], e[2]>> /\ t[3] # 0

\* C1, sparse_matrix.py: the same
PairsZeroSuppression ==
    \A m \in PMatrices :
        /\ \A k \in DOMAIN m.data : m.data[k] # 0
        /\ \A k \in DOMAIN m.data :
              k \notin DOMAIN sparse_matrix_set_element(m, k[1], k[2], 0).data

\* C1: in both implementations no matrix, built by set_element calls or
\* returned by add, subtract or multiply, stores an entry whose value is zero,
\* and set_element(row, col, 0) removes the entry at (row, col).
ZeroSuppression == MainZeroSuppression /\ PairsZeroSuppression

\* C2: in main.py get_element and set_element both fail with an index error
\* for every position outside [0, rows) x [0, cols), and the rejected call
\* leaves the entries as they were.
BoundsRejection ==
    \A m \in Matrices : \A row \in Idx, col \in Idx :
        ~InBounds(m, row, col) =>
            /\ get_element(heap, m, row, col).status = "MatrixIndexError"
            /\ \A value \in Vals :
                  LET st == set_element(heap, m, row, col, value)
                  IN /\ st.status = "MatrixIndexError"
                     /\ st.m = m
                     /\ Items(st.heap, st.m) = Items(heap, m)

\* C3, main.py: A.add(B) and B.add(A) agree at every position
MainAddCommutative ==
    \A self \in Names, other \in Names :
        SameShape(mats[self], mats[other]) =>
            LET x == add(heap, mats[self], mats[other])
                y == add(heap, mats[other], mats[self])
            IN /\ x.status = "ok"
               /\ y.status = "ok"
               /\ \A c \in Cells(mats[self]) :
                     Val(x.heap, x.m, c[1], c[2]) = Val(y.heap, y.m, c[1], c[2])

\* C3, sparse_matrix.py: the same
PairsAddCommutative ==
    \A self \in Names, other \in Names :
        SameShape(pmats[self], pmats[other]) =>
            LET x == sparse_matrix_add(pmats[self], pmats[other])
                y == sparse_matrix_add(pmats[other], pmats[self])
            IN /\ x.status = "ok"
               /\ y.status = "ok"
               /\ \A c \in Cells(pmats[self]) :
                     sparse_matrix_get_element(x.m, c[1], c[2])
                         = sparse_matrix_get_element(y.m, c[1], c[2])

\* C3: in both implementations add is commutative: for same-shaped A and B,
\* A.add(B) and B.add(A) have the same value at every in-bounds position.
AddCommutative == MainAddCommutative /\ PairsAddCommutative

\* what add and subtract are to compute at (row, col)
Wanted(operation, self, other, row, col) ==
    IF operation = "add"
    THEN Val(heap, self, row, col) + Val(heap, other, row, col)
    ELSE Val(heap, self, row, col) - Val(heap, other, row, col)

ElementwiseOk(operation, self, other, st) ==
    /\ st.status = "ok"
    /\ SameShape(st.m, self)
    /\ \A c \in Cells(self) :
          Val(st.heap, st.m, c[1], c[2]) = Wanted(operation, self, other, c[1], c[2])
    /\ Items(st.heap, st.m)
          = {<<c[1], c[2], Wanted(operation, self, other, c[1], c[2])>> :
                c \in {d \in Cells(self) : Wanted(operation, self, other, d[1], d[2]) # 0}}
    /\ operation = "add" /\ Items(heap, other) = {} =>
          Items(st.heap, st.m) = Items(heap, self)
    /\ operation = "subtract" /\ Items(heap, other) = Items(heap, self) =>
          Items(st.heap, st.m) = {}

\* C4: in main.py, for same-shaped A and B, A.add(B) (A.subtract(B)) has A's
\* dimensions, its value at every position is the sum (difference) of the
\* operands' values there, and it stores an entry exactly where that value is
\* not zero; so A + 0 = A and A - A stores nothing.
ElementwiseCorrect ==
    /\ \A self \in Names, other \in Names :
          SameShape(mats[self], mats[other]) =>
              /\ ElementwiseOk("add", mats[self], mats[other],
                               add(heap, mats[self], mats[other]))
              /\ ElementwiseOk("subtract", mats[self], mats[other],
                               subtract(heap, mats[self], mats[other]))
    /\ last.op = "add" /\ last.status = "ok" =>
          \E self \in Names, other \in Names :
              ResultIs(add(heap, mats[self], mats[other]))
    /\ last.op = "subtract" /\ last.status = "ok" =>
          \E self \in Names, other \in Names :
              ResultIs(subtract(heap, mats[self], mats[other]))

\* an add was returned whose operands each populate a position the other does
\* not, and a subtract of equal operands is at hand
ElementwiseWitness ==
    /\ last.op = "add"
    /\ last.status = "ok"
    /\ ResultIs(add(heap, mats["A"], mats["B"]))
    /\ \E c \in Cells(mats["A"]), d \in Cells(mats["A"]) :
          /\ Val(heap, mats["A"], c[1], c[2]) # 0
          /\ Val(heap, mats["B"], c[1], c[2]) = 0
          /\ Val(heap, mats["A"], d[1], d[2]) = 0
          /\ Val(heap, mats["B"], d[1], d[2]) # 0
          /\ Val(heap, result, c[1], c[2]) # 0
          /\ Val(heap, result, d[1], d[2]) # 0
    /\ \E c \in Cells(mats["A"]) :
          /\ Val(heap, mats["A"], c[1], c[2]) + Val(heap, mats["B"], c[1], c[2]) = 0
          /\ Val(heap, mats["A"], c[1], c[2]) # 0

MultiplyOk(self, other, st) ==
    /\ st.status = "ok"
    /\ st.m.rows = self.rows
    /\ st.m.cols = other.cols
    /\ \A c \in Cells(st.m) :
          Val(st.heap, st.m, c[1], c[2]) = Dot(heap, self, other, c[1], c[2], self.cols)
    /\ Items(st.heap, st.m)
          = {<<c[1], c[2], Dot(heap, self, other, c[1], c[2], self.cols)>> :
                c \in {d \in Cells(st.m) :
                          Dot(heap, self, other, d[1], d[2], self.cols) # 0}}
    /\ IsIdentity(heap, other) =>
          SameShape(st.m, self) /\ Items(st.heap, st.m) = Items(heap, self)
    /\ IsIdentity(heap, self) =>
          SameShape(st.m, other) /\ Items(st.heap, st.m) = Items(heap, other)

\* C5: in main.py, for A.cols = B.rows, A.multiply(B) is A.rows x B.cols, its
\* value at (r, c) is the sum over k of A[r, k] * B[k, c], it stores an entry
\* exactly where that sum is not zero, and multiplying by an identity matrix
\* returns a matrix equal to the other operand.
MultiplyCorrect ==
    /\ \A self \in Names, other \in Names :
          mats[self].cols = mats[other].rows =>
              MultiplyOk(mats[self], mats[other],
                         multiply(heap, mats[self], mats[other]))
    /\ last.op = "multiply" /\ last.status = "ok" =>
          \E self \in Names, other \in Names :
              ResultIs(multiply(heap, mats[self], mats[other]))

\* a product was returned in which a sum of two non-zero products cancels
MultiplyWitness ==
    /\ last.op = "multiply"
    /\ last.status = "ok"
    /\ ResultIs(multiply(heap, mats["A"], mats["B"]))
    /\ mats["A"].cols = 2
    /\ \E c \in Cells(result) :
          /\ Val(heap, mats["A"], c[1], 0) * Val(heap, mats["B"], 0, c[2]) # 0
          /\ Val(heap, mats["A"], c[1], 1) * Val(heap, mats["B"], 1, c[2]) # 0
          /\ Val(heap, result, c[1], c[2]) = 0
          /\ \A t \in Items(heap, result) : <<t[1], t[2]>> # c

Refused(st) ==
    /\ st.status = "MatrixDimensionError"
    /\ st.m = None
    /\ st.heap = heap

\* C6: in main.py add and subtract fail with a dimension error whenever the
\* operands' (rows, cols) differ, and multiply whenever self.cols # other.rows;
\* the failing call returns no matrix and has written no entry.
DimensionMismatchRejected ==
    /\ \A self \in Names, other \in Names :
          /\ ~SameShape(mats[self], mats[other]) =>
                /\ Refused(add(heap, mats[self], mats[other]))
                /\ Refused(subtract(heap, mats[self], mats[other]))
          /\ mats[self].cols # mats[other].rows =>
                Refused(multiply(heap, mats[self], mats[other]))
    /\ last.op \in {"add", "subtract"} /\ last.status = "ok" =>
          \E self \in Names, other \in Names :
              SameShape(mats[self], mats[other]) /\ SameShape(result, mats[self])
    /\ last.op = "multiply" /\ last.status = "ok" =>
          \E self \in Names, other \in Names :
              /\ mats[self].cols = mats[other].rows
              /\ result.rows = mats[self].rows
              /\ result.cols = mats[other].cols

\* a multiply of populated operands was refused before any result existed,
\* while their add would have been accepted
MismatchWitness ==
    /\ last.op = "multiply"
    /\ last.status = "MatrixDimensionError"
    /\ result = None
    /\ SameShape(mats["A"], mats["B"])
    /\ Items(heap, mats["A"]) # {}
    /\ Items(heap, mats["B"]) # {}

\* C7: in main.py, for every matrix and every in-bounds (row, col), after
\* set_element(row, col, v) get_element(row, col) returns v (0 when v = 0)
\* whatever was stored there; every other position and the dimensions are
\* unchanged.
SetThenGet ==
    \A m \in Matrices : \A c \in Cells(m), v \in Vals :
        LET st == set_element(heap, m, c[1], c[2], v)
        IN /\ st.status = "ok"
           /\ get_element(st.heap, st.m, c[1], c[2]) = [status |-> "ok", ret |-> v]
           /\ \A row \in Idx, col \in Idx :
                 <<row, col>> # c =>
                     Val(st.heap, st.m, row, col) = Val(heap, m, row, col)
           /\ SameShape(st.m, m)

\* a successful set_element has overwritten or removed an entry: the counter
\* of the matrix has counted more stores than it holds entries
SetThenGetWitness ==
    /\ last.op = "set_element"
    /\ last.status = "ok"
    /\ \E n \in Names :
          /\ Cardinality(Items(heap, mats[n])) = 1
          /\ mats[n].nnz = 2
          /\ Cardinality(Cells(mats[n])) > 1

\* C8: in main.py A.transpose() has rows and cols swapped and holds exactly
\* the entries (col, row, value) for the entries (row, col, value) of A;
\* A.transpose().transpose() has A's dimensions and entries.
TransposeCorrect ==
    /\ \A m \in Matrices :
          LET st == transpose(heap, m)
              back == transpose(st.heap, st.m)
          IN /\ st.status = "ok"
             /\ st.m.rows = m.cols
             /\ st.m.cols = m.rows
             /\ Items(st.heap, st.m) = {<<t[2], t[1], t[3]>> : t \in Items(heap, m)}
             /\ back.status = "ok"
             /\ SameShape(back.m, m)
             /\ Items(back.heap, back.m) = Items(heap, m)
    /\ last.op = "transpose" =>
          \E self \in Names : ResultIs(transpose(heap, mats[self]))

\* the transpose of a populated matrix that is not square was returned
TransposeWitness ==
    /\ last.op = "transpose"
    /\ last.status = "ok"
    /\ result.rows # result.cols
    /\ ResultIs(transpose(heap, mats["A"]))
    /\ Cardinality(Items(heap, result)) = 2

Untouched(h, m) == Items(h, m) = Items(heap, m)

Returned ==
    UNION {{add(heap, mats[self], mats[other]),
            subtract(heap, mats[self], mats[other]),
            multiply(heap, mats[self], mats[other]),
            transpose(heap, mats[self])} : <<self, other>> \in Names \X Names}

\* C9: in main.py add, subtract, multiply and transpose, whether they return or
\* fail, leave the entries of both operands as they were; the returned matrix
\* shares no inner dict with an operand, and a set_element call on it changes
\* no entry of an operand.
OperandsNeverMutated ==
    /\ \A st \in Returned : \A n \in Names : Untouched(st.heap, mats[n])
    /\ result # None =>
          /\ \A n \in Names : Refs(result) \cap Refs(mats[n]) = {}
          /\ \A row \in Idx, col \in Idx, value \in Vals :
                LET st == set_element(heap, result, row, col, value)
                IN \A n \in Names : Untouched(st.heap, mats[n])
    /\ Refs(mats["A"]) \cap Refs(mats["B"]) = {}

\* a sum was returned that populates a row both of its operands populate
FrameWitness ==
    /\ last.op = "add"
    /\ last.status = "ok"
    /\ ResultIs(add(heap, mats["A"], mats["B"]))
    /\ \E row \in DOMAIN result.data :
          /\ row \in DOMAIN mats["A"].data
          /\ row \in DOMAIN mats["B"].data
          /\ Cardinality(DOMAIN heap[result.data[row]]) = 2

\* C10: in main.py the counter nnz of every matrix, built by set_element calls
\* or returned by an operation, equals the number of entries it stores.
NnzConsistent ==
    \A m \in Matrices : m.nnz = Cardinality(Items(heap, m))

====
